---- MODULE Spec2Model ----
(***************************************************************************)
(* Model of the wordwise grammar-checking core:                            *)
(*   - lib/textProcessing.ts   (chunking, entity masking, offset adjust)   *)
(*   - app/api/research/route.ts, second POST handler (position            *)
(*     reconciliation, deduplication, no-op filtering)                     *)
(*   - the editor component (generation token of the check passes)         *)
(* Strings are sequences of one-character strings; positions are 0-based   *)
(* as in JavaScript.                                                       *)
(***************************************************************************)
EXTENDS Integers, Sequences, FiniteSets, TLC

\* ------------------------------------------------------------------------
\* Bounds of the model
\* ------------------------------------------------------------------------
MaxTextLen == 4

MaxEntities == 2

MaxEntityLen == 2

MaxChunkLen == 3

MaxPrepEntities == 1

MaxErrorLen == 2

MaxDocLen == 3

MaxEdits == 2

MaxUserEdits == 2

MaxPasses == 2

MaxToneRequests == 1

MaxSpellRequests == 1

MaxRecheckTimers == 1

MaxPostTextLen == 3

MaxChunkEdits == 1

MaxChunkChars == 3

MaxOriginalLen == 2

MaxErrors == 3

MaxPos == 2

MaxSentencesPerChunk == 2

\* the for loop of createTextChunks is followed down to i = -MaxBackSteps
MaxBackSteps == 3

\* documents of the runs whose sentence list holds a text the document lacks
MaxForeignTextLen == 3

\* ------------------------------------------------------------------------
\* JavaScript string primitives
\* ------------------------------------------------------------------------
Min(S) == CHOOSE x \in S : \A y \in S : x <= y

Max(S) == CHOOSE x \in S : \A y \in S : x >= y

\* all sequences over A of length 0..n
RECURSIVE SeqsUpTo(_, _)
SeqsUpTo(A, n) ==
  IF n = 0 THEN {<<>>}
  ELSE LET S == SeqsUpTo(A, n - 1)
       IN S \cup {Append(s, c) : s \in {t \in S : Len(t) = n - 1}, c \in A}

\* pat occurs in t at 0-based position p
MatchAt(t, pat, p) ==
  /\ p >= 0
  /\ p + Len(pat) <= Len(t)
  /\ \A j \in 1..Len(pat) : t[p + j] = pat[j]

\* String.prototype.indexOf(pat, from): first position >= from, or -1
IndexOf(t, pat, from) ==
  LET f == IF from < 0 THEN 0 ELSE IF from > Len(t) THEN Len(t) ELSE from
      c == {p \in f..(Len(t) - Len(pat)) : MatchAt(t, pat, p)}
  IN IF c = {} THEN -1 ELSE Min(c)

\* String.prototype.slice(s, e): negative arguments count from the end
Slice(t, s, e) ==
  LET n == Len(t)
      a == IF s < 0 THEN (IF n + s < 0 THEN 0 ELSE n + s) ELSE (IF s > n THEN n ELSE s)
      b == IF e < 0 THEN (IF n + e < 0 THEN 0 ELSE n + e) ELSE (IF e > n THEN n ELSE e)
  IN IF a >= b THEN <<>> ELSE SubSeq(t, a + 1, b)

IsSpace(c) == c = " "

\* String.prototype.trim()
Trim(t) ==
  LET ns == {p \in 1..Len(t) : ~IsSpace(t[p])}
  IN IF ns = {} THEN <<>> ELSE SubSeq(t, Min(ns), Max(ns))

\* String.prototype.toLowerCase() on the model's alphabet
LowerChar(c) == IF c = "A" THEN "a" ELSE IF c = "B" THEN "b" ELSE c

ToLowerCase(t) == [p \in 1..Len(t) |-> LowerChar(t[p])]

\* mutant of Reverse: the array is left in the order it was filled
ReverseKept(s) == s

\* Array.prototype.reverse()
Reverse(s) == [p \in 1..Len(s) |-> s[Len(s) + 1 - p]]

\* decimal rendering of a natural number, as template literals render it
RECURSIVE Digits(_)
Digits(n) ==
  LET d == <<"0", "1", "2", "3", "4", "5", "6", "7", "8", "9">>
  IN IF n < 10 THEN <<d[n + 1]>> ELSE Digits(n \div 10) \o <<d[(n % 10) + 1]>>

\* Array.prototype.sort((a, b) => b.start - a.start): stable, descending start
RECURSIVE SortByStartDesc(_)
SortByStartDesc(s) ==
  IF Len(s) <= 1 THEN s
  ELSE LET r == SortByStartDesc(SubSeq(s, 1, Len(s) - 1))
           x == s[Len(s)]
           k == Cardinality({p \in 1..Len(r) : r[p].start >= x.start})
       IN SubSeq(r, 1, k) \o <<x>> \o SubSeq(r, k + 1, Len(r))

\* Array.prototype.sort((a, b) => a.start - b.start): stable, ascending start
RECURSIVE SortByStartAsc(_)
SortByStartAsc(s) ==
  IF Len(s) <= 1 THEN s
  ELSE LET r == SortByStartAsc(SubSeq(s, 1, Len(s) - 1))
           x == s[Len(s)]
           k == Cardinality({p \in 1..Len(r) : r[p].start <= x.start})
       IN SubSeq(r, 1, k) \o <<x>> \o SubSeq(r, k + 1, Len(r))

\* ------------------------------------------------------------------------
\* State
\* ------------------------------------------------------------------------
VARIABLES
  \* createTextChunks / prepareTextForGrammarCheck
  text,               \* the document text
  nodes,              \* what split(text) of sentence-splitter returned
  sentencesPerChunk,
  sentences,
  i,                  \* loop index of createTextChunks
  searchStart,
  chunks,
  processedChunks,
  pcChunks,
  \* maskNamedEntities / unmaskEntities / adjustErrorPositions
  chunkText,          \* the text handed to maskNamedEntities
  allEntities,        \* what the recognizer reported, in category order
  masked,             \* the ProcessedText returned by maskNamedEntities
  restoredText,       \* the result of unmaskEntities
  rawErrors,          \* corrections with offsets into maskedText
  adjustedErrors,     \* the result of adjustErrorPositions
  pcMask,
  \* POST handler of the grammar check: reconciliation, deduplication, filtering
  truncatedText,      \* the submitted document text
  edits,              \* the corrections collected from all chunks
  searchCursor,
  errorsUnsorted,
  cursorLog,          \* history: searchCursor as each edit's callback began
  uniqueMap,          \* the Map, as its entries in insertion order
  deduped,            \* how many of errorsUnsorted the forEach has visited
  filteredErrors,     \* the response body
  pcHandler,
  \* the editor component: check scheduling and the displayed error list
  latestCheckIdRef,
  isChecking,
  errors,             \* the displayed list, as the set of its entries' kinds and origins
  isTyping,
  typingTimeoutRef,   \* TRUE while the 500 ms timer is armed
  checkTimeoutRef,    \* TRUE while the 1000 ms debounce timer is armed
  recheckTimers,      \* armed 100 ms timers of Accept / Decline
  selectedTone,
  effectPending,      \* the tone effect is scheduled to run
  textLong,           \* the document passes text.trim() && text.length >= 5
  editCount,          \* history: user edits seen by onUpdate
  passes,             \* history: every deep pass, by start order
  settleLog,          \* history: every settled gptCheck request, by settle order
  toneRequests,       \* gptToneSuggest requests in flight
  spellRequests,      \* gptSpellCheck requests in flight
  \* POST handler of the grammar check: from the request to the collected edits
  maxChunkChars,      \* MAX_CHUNK_CHARS as configured
  chunkIdx,           \* chunks the for loop has handled
  gptCalls,           \* history: every runGptCheck call, in order
  editOrigin,         \* history: for each element of edits, the chunk it came from
  pcPost

chunkVars == <<text, nodes, sentencesPerChunk, sentences, i, searchStart, chunks,
               processedChunks, pcChunks>>

maskVars == <<chunkText, allEntities, masked, restoredText, rawErrors, adjustedErrors, pcMask>>

handlerVars == <<truncatedText, edits, searchCursor, errorsUnsorted, cursorLog, uniqueMap,
                 deduped, filteredErrors, pcHandler>>

editorVars == <<latestCheckIdRef, isChecking, errors, isTyping, typingTimeoutRef,
                checkTimeoutRef, recheckTimers, selectedTone, effectPending, textLong,
                editCount, passes, settleLog, toneRequests, spellRequests>>

postVars == <<maxChunkChars, chunkIdx, gptCalls, editOrigin, pcPost>>

vars == <<chunkVars, maskVars, handlerVars, editorVars, postVars>>

\* ------------------------------------------------------------------------
\* Alphabets and input sets
\* ------------------------------------------------------------------------
Alphabet == {"a", "b", " "}

Texts == SeqsUpTo(Alphabet, MaxTextLen)

\* an entity text the recognizer reports that is not in the text (normalised output)
AbsentEntity == <<"z">>

\* the characters of the words the recognizer reports
WordChars == Alphabet \cup {"$", "&"}

\* non-empty substrings of t of at most n word characters that carry no outer blanks
TrimmedSubstrings(t, n) ==
  {s \in {SubSeq(t, a, b) : a \in 1..Len(t), b \in 1..Len(t)} :
     /\ Len(s) >= 1
     /\ Len(s) <= n
     /\ Trim(s) = s
     /\ \A p \in 1..Len(s) : s[p] \in WordChars}

NodeTypes == {"Sentence", "WhiteSpace"}

\* The node lists split(t) may return: consecutive pieces of t, each of some type,
\* whose raw texts concatenate to t.
RECURSIVE Segmentations(_)
Segmentations(t) ==
  IF t = <<>> THEN {<<>>}
  ELSE UNION {
         {<<[type |-> ty, raw |-> SubSeq(t, 1, k)]>> \o rest :
            ty \in NodeTypes, rest \in Segmentations(SubSeq(t, k + 1, Len(t)))}
         : k \in 1..Len(t)}

\* the categories maskNamedEntities collects, in the order it concatenates them
EntityTypes == <<"person", "place", "organization", "date", "url">>

TypeRank(ty) == CHOOSE r \in 1..Len(EntityTypes) : EntityTypes[r] = ty

\* the categories the model lets the recognizer report
ReportedTypes == {"person", "place"}

\* What the recognizer may report for t: at most n entities, listed in category
\* order (people, places, ...), each a trimmed substring of t or a text that is
\* not in t.
NerOutputs(t, n) ==
  LET E == [text : TrimmedSubstrings(t, MaxEntityLen) \cup {AbsentEntity}, type : ReportedTypes]
  IN {all \in SeqsUpTo(E, n) :
        \A p \in 1..(Len(all) - 1) : TypeRank(all[p].type) <= TypeRank(all[p + 1].type)}

\* entity.type.toUpperCase()
TypeUpper(ty) ==
  CASE ty = "person" -> <<"P", "E", "R", "S", "O", "N">>
    [] ty = "place" -> <<"P", "L", "A", "C", "E">>
    [] ty = "organization" -> <<"O", "R", "G", "A", "N", "I", "Z", "A", "T", "I", "O", "N">>
    [] ty = "date" -> <<"D", "A", "T", "E">>
    [] ty = "url" -> <<"U", "R", "L">>

\* `<ENTITY_${entity.type.toUpperCase()}_${idx}>`
MaskToken(ty, idx) ==
  <<"<", "E", "N", "T", "I", "T", "Y", "_">> \o TypeUpper(ty) \o <<"_">> \o Digits(idx) \o <<">">>

\* ------------------------------------------------------------------------
\* lib/textProcessing.ts
\* ------------------------------------------------------------------------
\* entityPositions: positions by first occurrence, missing ones dropped,
\* sorted by descending start
EntityPositions(t, all) ==
  LET located == [p \in 1..Len(all) |->
                    LET index == IndexOf(t, all[p].text, 0)
                    IN [text |-> all[p].text, type |-> all[p].type,
                        start |-> index, end |-> index + Len(all[p].text)]]
      Found(e) == e.start # -1
  IN SortByStartDesc(SelectSeq(located, Found))

\* the forEach of maskNamedEntities, from index idx (0-based) on
RECURSIVE MaskLoop(_, _, _, _)
MaskLoop(maskedText, entities, entityPositions, idx) ==
  IF idx >= Len(entityPositions) THEN [maskedText |-> maskedText, entities |-> entities]
  ELSE LET entity == entityPositions[idx + 1]
           mask == MaskToken(entity.type, idx)
       IN MaskLoop(Slice(maskedText, 0, entity.start) \o mask
                     \o Slice(maskedText, entity.end, Len(maskedText)),
                   Append(entities, [text |-> entity.text, replacement |-> mask,
                                     start |-> entity.start, end |-> entity.end,
                                     type |-> entity.type]),
                   entityPositions, idx + 1)

maskNamedEntities(t, all) ==
  LET r == MaskLoop(t, <<>>, EntityPositions(t, all), 0)
  IN [maskedText |-> r.maskedText, entities |-> Reverse(r.entities), originalText |-> t]

\* the replacement text of String.prototype.replace(pattern, rep) with a string
\* pattern: $$, $&, $` and $' are expanded, everything else is literal
RECURSIVE GetSubstitution(_, _, _, _)
GetSubstitution(rep, matched, before, after) ==
  IF rep = <<>> THEN <<>>
  ELSE IF Len(rep) >= 2 /\ rep[1] = "$" /\ rep[2] \in {"$", "&", "`", "'"}
       THEN (CASE rep[2] = "$" -> <<"$">>
               [] rep[2] = "&" -> matched
               [] rep[2] = "`" -> before
               [] rep[2] = "'" -> after)
            \o GetSubstitution(SubSeq(rep, 3, Len(rep)), matched, before, after)
       ELSE <<rep[1]>> \o GetSubstitution(Tail(rep), matched, before, after)

\* String.prototype.replace(pat, rep) with a string pattern: first occurrence only
Replace(t, pat, rep) ==
  LET p == IndexOf(t, pat, 0)
  IN IF p = -1 THEN t
     ELSE LET before == Slice(t, 0, p)
              after == Slice(t, p + Len(pat), Len(t))
          IN before \o GetSubstitution(rep, pat, before, after) \o after

RECURSIVE UnmaskLoop(_, _)
UnmaskLoop(restored, sortedEntities) ==
  IF sortedEntities = <<>> THEN restored
  ELSE UnmaskLoop(Replace(restored, Head(sortedEntities).replacement, Head(sortedEntities).text),
                  Tail(sortedEntities))

unmaskEntities(maskedText, entities) == UnmaskLoop(maskedText, SortByStartDesc(entities))

\* the entities.forEach of adjustErrorPositions: the accumulated shift
RECURSIVE AdjustDelta(_, _, _)
AdjustDelta(errorStart, maskedText, entities) ==
  IF entities = <<>> THEN 0
  ELSE LET entity == Head(entities)
           lengthDiff == Len(entity.text) - Len(entity.replacement)
           maskPos == IndexOf(maskedText, entity.replacement, 0)
       IN (IF maskPos # -1 /\ maskPos < errorStart THEN lengthDiff ELSE 0)
          + AdjustDelta(errorStart, maskedText, Tail(entities))

adjustErrorPositions(errs, maskedText, originalText, entities) ==
  [p \in 1..Len(errs) |->
     LET d == AdjustDelta(errs[p].start, maskedText, entities)
     IN [errs[p] EXCEPT !.start = @ + d, !.end = @ + d]]

\* the raw texts of the Sentence nodes, neither trimmed nor filtered
splitIntoSentencesKeepBlank(ns) ==
  LET isSentence(node) == node.type = "Sentence"
      kept == SelectSeq(ns, isSentence)
  IN [p \in 1..Len(kept) |-> kept[p].raw]

\* nodes.filter(Sentence).map(raw.trim()).filter(non-empty)
splitIntoSentences(ns) ==
  LET IsSentence(n) == n.type = "Sentence"
      NonEmpty(x) == Len(x) > 0
      kept == SelectSeq(ns, IsSentence)
  IN SelectSeq([p \in 1..Len(kept) |-> Trim(kept[p].raw)], NonEmpty)

\* sentences.join(' ')
RECURSIVE JoinWithSpace(_)
JoinWithSpace(ss) ==
  IF ss = <<>> THEN <<>>
  ELSE IF Len(ss) = 1 THEN ss[1]
  ELSE ss[1] \o <<" ">> \o JoinWithSpace(Tail(ss))

\* mutant of TextChunk: the chunk text is the sentences joined by one space
TextChunkJoined(t, chunkSentences, startOffset, endOffset) ==
  [text |-> JoinWithSpace(chunkSentences),
   startOffset |-> startOffset,
   endOffset |-> endOffset,
   sentenceCount |-> Len(chunkSentences)]

\* the chunk pushed by one iteration of createTextChunks
TextChunk(t, chunkSentences, startOffset, endOffset) ==
  [text |-> Slice(t, startOffset, endOffset),
   startOffset |-> startOffset,
   endOffset |-> endOffset,
   sentenceCount |-> Len(chunkSentences)]

\* ------------------------------------------------------------------------
\* createTextChunks and prepareTextForGrammarCheck, step by step
\* ------------------------------------------------------------------------
IdlePost ==
  /\ maxChunkChars = 0
  /\ chunkIdx = 0
  /\ gptCalls = <<>>
  /\ editOrigin = <<>>
  /\ pcPost = "idle"

IdleEditor ==
  /\ latestCheckIdRef = 0
  /\ isChecking = FALSE
  /\ errors = {}
  /\ isTyping = FALSE
  /\ typingTimeoutRef = FALSE
  /\ checkTimeoutRef = FALSE
  /\ recheckTimers = 0
  /\ selectedTone = "null"
  /\ effectPending = FALSE
  /\ textLong = FALSE
  /\ editCount = 0
  /\ passes = <<>>
  /\ settleLog = <<>>
  /\ toneRequests = 0
  /\ spellRequests = 0

IdleMask ==
  /\ chunkText = <<>>
  /\ allEntities = <<>>
  /\ masked = [maskedText |-> <<>>, entities |-> <<>>, originalText |-> <<>>]
  /\ restoredText = <<>>
  /\ rawErrors = <<>>
  /\ adjustedErrors = <<>>
  /\ pcMask = "idle"

IdleHandler ==
  /\ truncatedText = <<>>
  /\ edits = <<>>
  /\ searchCursor = 0
  /\ errorsUnsorted = <<>>
  /\ cursorLog = <<>>
  /\ uniqueMap = <<>>
  /\ deduped = 0
  /\ filteredErrors = <<>>
  /\ pcHandler = "idle"

InitChunks ==
  /\ text \in Texts
  /\ nodes \in Segmentations(text)
  /\ sentencesPerChunk \in 1..MaxSentencesPerChunk
  /\ sentences = <<>>
  /\ i = 0
  /\ searchStart = 0
  /\ chunks = <<>>
  /\ processedChunks = <<>>
  /\ pcChunks = "split"
  /\ IdleMask
  /\ IdleHandler
  /\ IdleEditor
  /\ IdlePost

IdleChunks ==
  /\ text = <<>>
  /\ nodes = <<>>
  /\ sentencesPerChunk = 1
  /\ sentences = <<>>
  /\ i = 0
  /\ searchStart = 0
  /\ chunks = <<>>
  /\ processedChunks = <<>>
  /\ pcChunks = "idle"

\* searchStart = endOffset, at the end of an iteration that pushed a chunk
NextSearchStartKept(current, endOffset) == current

NextSearchStart(current, endOffset) == endOffset

\* const sentences = splitIntoSentences(text); if (sentences.length === 0) return chunks
SplitIntoSentences ==
  /\ pcChunks = "split"
  /\ sentences' = splitIntoSentences(nodes)
  /\ pcChunks' = IF Len(sentences') = 0 THEN "map" ELSE "loop"
  /\ UNCHANGED <<text, nodes, sentencesPerChunk, i, searchStart, chunks, processedChunks>>
  /\ UNCHANGED <<maskVars, handlerVars, editorVars, postVars>>

\* split(text) throws: splitIntoSentences and createTextChunks have no handler,
\* the exception leaves prepareTextForGrammarCheck
SplitThrows ==
  /\ pcChunks = "split"
  /\ pcChunks' = "splitThrew"
  /\ UNCHANGED <<text, nodes, sentencesPerChunk, sentences, i, searchStart, chunks, processedChunks>>
  /\ UNCHANGED <<maskVars, handlerVars, editorVars, postVars>>

\* String(undefined), what indexOf searches for when handed an absent element
UndefinedText == <<"u", "n", "d", "e", "f", "i", "n", "e", "d">>

\* arr[k] of a JavaScript array (0-based): undefined outside the array, which
\* indexOf reads as the text "undefined"; no document here contains that text,
\* so the search fails and lastSentence.length is never evaluated on it
ElementAt(arr, k) == IF k >= 0 /\ k < Len(arr) THEN arr[k + 1] ELSE UndefinedText

\* mutant of EndOffset: the chunk ends where its last sentence begins
EndOffsetAtStart(lastSentenceStart, lastSentence) == lastSentenceStart

\* const endOffset = lastSentenceStart + lastSentence.length
EndOffset(lastSentenceStart, lastSentence) == lastSentenceStart + Len(lastSentence)

\* const chunkSentences = sentences.slice(i, i + sentencesPerChunk)
ChunkSentences == Slice(sentences, i, i + sentencesPerChunk)

\* text.indexOf(firstSentence, searchStart)
StartOffset == IndexOf(text, ElementAt(ChunkSentences, 0), searchStart)

\* text.indexOf(lastSentence, startOffset)
LastSentenceStart ==
  IndexOf(text, ElementAt(ChunkSentences, Len(ChunkSentences) - 1), StartOffset)

\* one iteration of the for loop of createTextChunks
CreateTextChunksLoop ==
  /\ pcChunks = "loop"
  /\ i < Len(sentences)
  /\ i > -MaxBackSteps
  /\ LET chunkSentences == ChunkSentences
         startOffset == StartOffset
         lastSentence == ElementAt(chunkSentences, Len(chunkSentences) - 1)
         lastSentenceStart == LastSentenceStart
         endOffset == EndOffset(lastSentenceStart, lastSentence)
     IN IF startOffset = -1
        THEN UNCHANGED <<chunks, searchStart>>
        ELSE /\ chunks' = Append(chunks, TextChunk(text, chunkSentences, startOffset, endOffset))
             /\ searchStart' = NextSearchStart(searchStart, endOffset)
  /\ i' = i + sentencesPerChunk
  /\ UNCHANGED <<text, nodes, sentencesPerChunk, sentences, processedChunks, pcChunks>>
  /\ UNCHANGED <<maskVars, handlerVars, editorVars, postVars>>

\* the loop condition fails: return chunks
CreateTextChunksReturn ==
  /\ pcChunks = "loop"
  /\ i >= Len(sentences)
  /\ pcChunks' = "map"
  /\ UNCHANGED <<text, nodes, sentencesPerChunk, sentences, i, searchStart, chunks, processedChunks>>
  /\ UNCHANGED <<maskVars, handlerVars, editorVars, postVars>>

\* one callback of textChunks.map in prepareTextForGrammarCheck
PrepareChunk ==
  /\ pcChunks = "map"
  /\ Len(processedChunks) < Len(chunks)
  /\ LET chunk == chunks[Len(processedChunks) + 1]
     IN \E all \in NerOutputs(chunk.text, MaxPrepEntities) :
          LET m == maskNamedEntities(chunk.text, all)
          IN processedChunks' = Append(processedChunks,
               [maskedText |-> m.maskedText,
                originalText |-> m.originalText,
                entities |-> m.entities,
                startOffset |-> chunk.startOffset,
                endOffset |-> chunk.endOffset])
  /\ UNCHANGED <<text, nodes, sentencesPerChunk, sentences, i, searchStart, chunks, pcChunks>>
  /\ UNCHANGED <<maskVars, handlerVars, editorVars, postVars>>

\* nlp(text) or one of its lookups throws inside maskNamedEntities for the next
\* chunk: no handler in maskNamedEntities or prepareTextForGrammarCheck
NlpThrows ==
  /\ pcChunks = "map"
  /\ Len(processedChunks) < Len(chunks)
  /\ pcChunks' = "nlpThrew"
  /\ UNCHANGED <<text, nodes, sentencesPerChunk, sentences, i, searchStart, chunks, processedChunks>>
  /\ UNCHANGED <<maskVars, handlerVars, editorVars, postVars>>

\* return { chunks: processedChunks }
PrepareReturn ==
  /\ pcChunks = "map"
  /\ Len(processedChunks) = Len(chunks)
  /\ pcChunks' = "done"
  /\ UNCHANGED <<text, nodes, sentencesPerChunk, sentences, i, searchStart, chunks, processedChunks>>
  /\ UNCHANGED <<maskVars, handlerVars, editorVars, postVars>>

NextChunks ==
  \/ SplitIntoSentences
  \/ SplitThrows
  \/ CreateTextChunksLoop
  \/ CreateTextChunksReturn
  \/ PrepareChunk
  \/ NlpThrows
  \/ PrepareReturn

SpecChunks == InitChunks /\ [][NextChunks]_vars

\* ------------------------------------------------------------------------
\* Properties of createTextChunks / prepareTextForGrammarCheck
\* ------------------------------------------------------------------------
\* C1: every chunk's text is the slice of the document text between its offsets,
\* and every processed chunk carries that same slice as originalText, with the
\* same startOffset and endOffset.
ChunkSliceInvariant ==
  /\ \A p \in 1..Len(chunks) :
       chunks[p].text = Slice(text, chunks[p].startOffset, chunks[p].endOffset)
  /\ \A p \in 1..Len(processedChunks) :
       /\ processedChunks[p].originalText
            = Slice(text, chunks[p].startOffset, chunks[p].endOffset)
       /\ processedChunks[p].startOffset = chunks[p].startOffset
       /\ processedChunks[p].endOffset = chunks[p].endOffset

\* a finished run with a two-sentence chunk whose sentences are separated by more
\* than one blank
ChunkSliceWitness ==
  /\ pcChunks = "done"
  /\ Len(processedChunks) = Len(chunks)
  /\ \E p \in 1..Len(chunks) :
       /\ chunks[p].sentenceCount = 2
       /\ chunks[p].text = <<"a", " ", " ", "b">>

\* C15: when the sentence detector throws, or returns no Sentence node for a
\* non-blank text, the whole input is taken as one sentence, one chunk is
\* produced and no exception reaches the caller.
SegmentationFailureDegrades ==
  /\ pcChunks # "splitThrew"
  /\ (/\ pcChunks = "done"
      /\ Trim(text) # <<>>
      /\ \A p \in 1..Len(nodes) : nodes[p].type # "Sentence")
     => (Len(sentences) = 1 /\ Len(chunks) = 1)

\* C13: the startOffset values of the chunks createTextChunks returns are strictly
\* increasing in list order.
ChunkOrdering ==
  \A p, q \in 1..Len(chunks) : p < q => chunks[p].startOffset < chunks[q].startOffset

\* two chunks of equal text: the second one is found after the first
ChunkOrderingWitness ==
  /\ pcChunks = "done"
  /\ Len(chunks) >= 2
  /\ chunks[1].text = chunks[2].text
  /\ chunks[1].startOffset < chunks[2].startOffset

\* The place each sentence of splitIntoSentences(ns) has in the document: the
\* node's raw text starts at off, and trim() drops its leading and trailing blanks.
RECURSIVE SentenceSpans(_, _)
SentenceSpans(ns, off) ==
  IF ns = <<>> THEN <<>>
  ELSE LET raw == ns[1].raw
           rest == SentenceSpans(Tail(ns), off + Len(raw))
           lead == Min({p \in 1..Len(raw) : ~IsSpace(raw[p])}) - 1
       IN IF ns[1].type = "Sentence" /\ Trim(raw) # <<>>
          THEN <<[start |-> off + lead, end |-> off + lead + Len(Trim(raw))]>> \o rest
          ELSE rest

\* the loop of createTextChunks has finished
LoopFinished == pcChunks \in {"map", "done", "nlpThrew"}

\* C22: every chunk ends where the last sentence of its batch ends in the
\* document, at that sentence's own place, and starts no later than the batch's
\* first sentence, so its text holds all the sentences of the batch.
ChunkCoversBatch ==
  LoopFinished =>
    LET spans == SentenceSpans(nodes, 0)
    IN \A p \in 1..Len(chunks) :
         LET firstIdx == (p - 1) * sentencesPerChunk + 1
             lastIdx == Min({p * sentencesPerChunk, Len(sentences)})
         IN /\ chunks[p].startOffset <= spans[firstIdx].start
            /\ chunks[p].endOffset = spans[lastIdx].end

\* C28: every chunk is non-empty and inside the text, and consecutive chunks do
\* not share a character: startOffset < endOffset <= text.length and
\* chunk[p].endOffset <= chunk[p+1].startOffset.
ChunksDisjoint ==
  /\ \A p \in 1..Len(chunks) :
       /\ chunks[p].startOffset < chunks[p].endOffset
       /\ chunks[p].endOffset <= Len(text)
  /\ \A p \in 1..(Len(chunks) - 1) : chunks[p].endOffset <= chunks[p + 1].startOffset

\* two chunks that touch: the second starts on the character after the first
ChunksDisjointWitness ==
  /\ pcChunks = "done"
  /\ Len(chunks) >= 2
  /\ chunks[1].endOffset = chunks[2].startOffset
  /\ chunks[1].text = <<"a", "b">>

\* ------------------------------------------------------------------------
\* createTextChunks on sentence texts that are not in the document
\* ------------------------------------------------------------------------
\* a sentence text the document does not contain
AbsentSentence == <<"z">>

\* node lists in which one Sentence node carries a text that is not the
\* document's: the case the indexOf tests of createTextChunks are written for
ForeignSegmentations(t) ==
  UNION {{[ns EXCEPT ![k].raw = AbsentSentence] :
            k \in {q \in 1..Len(ns) : ns[q].type = "Sentence"}}
         : ns \in Segmentations(t)}

InitChunksForeign ==
  /\ text \in SeqsUpTo(Alphabet, MaxForeignTextLen)
  /\ nodes \in Segmentations(text) \cup ForeignSegmentations(text)
  /\ sentencesPerChunk \in 1..MaxSentencesPerChunk
  /\ sentences = <<>>
  /\ i = 0
  /\ searchStart = 0
  /\ chunks = <<>>
  /\ processedChunks = <<>>
  /\ pcChunks = "split"
  /\ IdleMask
  /\ IdleHandler
  /\ IdleEditor
  /\ IdlePost

SpecChunksForeign == InitChunksForeign /\ [][NextChunks]_vars

\* C21: an iteration whose search for the batch's first sentence or for its last
\* sentence fails pushes no chunk and leaves searchStart as it was.
UnlocatedBatchSkipped ==
  [][(/\ pcChunks = "loop"
      /\ i' # i
      /\ (StartOffset = -1 \/ LastSentenceStart = -1))
     => (chunks' = chunks /\ searchStart' = searchStart)]_vars

\* ------------------------------------------------------------------------
\* createTextChunks for every configured batch size
\* ------------------------------------------------------------------------
\* parseInt(process.env.GPT_CHECK_SENTENCES_PER_CHUNK || '2', 10): any integer
\* the setting spells, zero and negative ones included
SentencesPerChunkSettings == (0 - MaxSentencesPerChunk)..MaxSentencesPerChunk

InitChunksConfigured ==
  /\ text \in Texts
  /\ nodes \in Segmentations(text)
  /\ sentencesPerChunk \in SentencesPerChunkSettings
  /\ sentences = <<>>
  /\ i = 0
  /\ searchStart = 0
  /\ chunks = <<>>
  /\ processedChunks = <<>>
  /\ pcChunks = "split"
  /\ IdleMask
  /\ IdleHandler
  /\ IdleEditor
  /\ IdlePost

\* the function runs on: whenever a step of it can be taken, one is taken
SpecChunksConfigured ==
  InitChunksConfigured /\ [][NextChunks]_vars /\ WF_vars(NextChunks)

\* C29: createTextChunks returns, or throws, for every text and every configured
\* sentencesPerChunk: the run leaves the split and the for loop.
CreateTextChunksTerminates == <>(pcChunks \notin {"split", "loop"})

\* ------------------------------------------------------------------------
\* maskNamedEntities, unmaskEntities and adjustErrorPositions on one chunk
\* ------------------------------------------------------------------------
\* chunk texts that spell out a placeholder token or a replace() pattern themselves
SpecialTexts ==
  {MaskToken("place", 0) \o <<"a", "b">>,
   <<"a">> \o MaskToken("person", 0),
   <<"$", "&">>}

\* "Mrs. Smith went to New York.", the example of the revamp summary
SmithText ==
  <<"M", "r", "s", ".", " ", "S", "m", "i", "t", "h", " ", "w", "e", "n", "t">>
  \o <<" ", "t", "o", " ", "N", "e", "w", " ", "Y", "o", "r", "k", ".">>

\* the entities recognized in it: "Smith" (person) and "New York" (place)
SmithEntities ==
  <<[text |-> <<"S", "m", "i", "t", "h">>, type |-> "person"],
    [text |-> <<"N", "e", "w", " ", "Y", "o", "r", "k">>, type |-> "place"]>>

MaskTexts == SeqsUpTo(Alphabet, MaxChunkLen) \cup SpecialTexts \cup {SmithText}

\* what the recognizer reports for the chunk text
MaskEntityInputs(t) ==
  IF t = SmithText THEN {SmithEntities} ELSE NerOutputs(t, MaxEntities)

\* every span of 1..MaxErrorLen characters of t from position a on, in order, as
\* corrections reported against t
RECURSIVE SpansFrom(_, _)
SpansFrom(t, a) ==
  IF a >= Len(t) THEN <<>>
  ELSE [k \in 1..Min({MaxErrorLen, Len(t) - a}) |->
          [start |-> a, end |-> a + k, original |-> Slice(t, a, a + k)]]
       \o SpansFrom(t, a + 1)

AllSpans(t) == SpansFrom(t, 0)

InitMask ==
  /\ chunkText \in MaskTexts
  /\ allEntities \in MaskEntityInputs(chunkText)
  /\ masked = [maskedText |-> <<>>, entities |-> <<>>, originalText |-> <<>>]
  /\ restoredText = <<>>
  /\ rawErrors = <<>>
  /\ adjustedErrors = <<>>
  /\ pcMask = "mask"
  /\ IdleChunks
  /\ IdleHandler
  /\ IdleEditor
  /\ IdlePost

\* const { maskedText, entities, originalText } = maskNamedEntities(chunk.text)
MaskNamedEntities ==
  /\ pcMask = "mask"
  /\ masked' = maskNamedEntities(chunkText, allEntities)
  /\ pcMask' = "unmask"
  /\ UNCHANGED <<chunkText, allEntities, restoredText, rawErrors, adjustedErrors>>
  /\ UNCHANGED <<chunkVars, handlerVars, editorVars, postVars>>

\* unmaskEntities(maskedText, entities)
UnmaskEntities ==
  /\ pcMask = "unmask"
  /\ restoredText' = unmaskEntities(masked.maskedText, masked.entities)
  /\ pcMask' = "gpt"
  /\ UNCHANGED <<chunkText, allEntities, masked, rawErrors, adjustedErrors>>
  /\ UNCHANGED <<chunkVars, handlerVars, editorVars, postVars>>

\* the correction model answers for maskedText: here with one correction per span
RunGptCheck ==
  /\ pcMask = "gpt"
  /\ rawErrors' = AllSpans(masked.maskedText)
  /\ pcMask' = "adjust"
  /\ UNCHANGED <<chunkText, allEntities, masked, restoredText, adjustedErrors>>
  /\ UNCHANGED <<chunkVars, handlerVars, editorVars, postVars>>

\* adjustErrorPositions(chunkEdits, chunk.maskedText, chunk.originalText, chunk.entities)
AdjustErrorPositions ==
  /\ pcMask = "adjust"
  /\ adjustedErrors' = adjustErrorPositions(rawErrors, masked.maskedText,
                                            masked.originalText, masked.entities)
  /\ pcMask' = "done"
  /\ UNCHANGED <<chunkText, allEntities, masked, restoredText, rawErrors>>
  /\ UNCHANGED <<chunkVars, handlerVars, editorVars, postVars>>

NextMask ==
  \/ MaskNamedEntities
  \/ UnmaskEntities
  \/ RunGptCheck
  \/ AdjustErrorPositions

SpecMask == InitMask /\ [][NextMask]_vars

\* ------------------------------------------------------------------------
\* Properties of masking
\* ------------------------------------------------------------------------
OccurrenceCount(t, pat) ==
  Cardinality({p \in 0..(Len(t) - Len(pat)) : MatchAt(t, pat, p)})

\* no reported entity literal occurs twice in the chunk text
NoDuplicateEntityLiterals ==
  \A p \in 1..Len(allEntities) : OccurrenceCount(chunkText, allEntities[p].text) <= 1

\* the masked entities have pairwise disjoint spans in the chunk text
NonOverlappingEntities ==
  \A p \in 1..Len(masked.entities) : \A q \in (p + 1)..Len(masked.entities) :
    \/ masked.entities[p].end <= masked.entities[q].start
    \/ masked.entities[q].end <= masked.entities[p].start

RECURSIVE SumDiff(_, _)
SumDiff(entities, K) ==
  IF K = {} THEN 0
  ELSE LET k == CHOOSE x \in K : TRUE
       IN (Len(entities[k].text) - Len(entities[k].replacement)) + SumDiff(entities, K \ {k})

\* where the placeholder of the k-th table entry stands in maskedText when the
\* entities are disjoint (the table is in left-to-right order)
PlaceholderPos(k) ==
  masked.entities[k].start - SumDiff(masked.entities, 1..(k - 1))

\* [s, e) of maskedText touches no placeholder
SpanClear(s, e) ==
  \A k \in 1..Len(masked.entities) :
    \/ e <= PlaceholderPos(k)
    \/ s >= PlaceholderPos(k) + Len(masked.entities[k].replacement)

\* C4: with disjoint masked entities, a correction whose reported span is a
\* placeholder-free span of maskedText is shifted by the summed length difference
\* of exactly the entities masked before it, and then addresses the same
\* characters in the unmasked chunk text.
OffsetAdjustmentCorrect ==
  (pcMask = "done" /\ NonOverlappingEntities) =>
    \A p \in 1..Len(rawErrors) :
      SpanClear(rawErrors[p].start, rawErrors[p].end) =>
        LET d == SumDiff(masked.entities,
                         {k \in 1..Len(masked.entities) : PlaceholderPos(k) < rawErrors[p].start})
        IN /\ adjustedErrors[p].start = rawErrors[p].start + d
           /\ adjustedErrors[p].end = rawErrors[p].end + d
           /\ Slice(masked.originalText, adjustedErrors[p].start, adjustedErrors[p].end)
                = Slice(masked.maskedText, rawErrors[p].start, rawErrors[p].end)

\* C5: when no reported entity literal occurs twice in the chunk text, unmasking
\* the masked text with the recorded table gives the chunk text back, whatever
\* entities were reported.
MaskUnmaskRoundTrip ==
  (pcMask \in {"gpt", "adjust", "done"} /\ NoDuplicateEntityLiterals) =>
    restoredText = chunkText

\* C14: the replacement tokens of the entities table are pairwise distinct and
\* none of them occurs in the chunk's original text.
PlaceholdersDistinctAndFresh ==
  pcMask # "mask" =>
    /\ \A j, k \in 1..Len(masked.entities) :
         j # k => masked.entities[j].replacement # masked.entities[k].replacement
    /\ \A k \in 1..Len(masked.entities) :
         IndexOf(masked.originalText, masked.entities[k].replacement, 0) = -1

\* C18: placeholder indices follow reading order: the leftmost masked entity of
\* a chunk carries index 0 and the indices increase from left to right, so the
\* example text is masked to "Mrs. <ENTITY_PERSON_0> went to <ENTITY_PLACE_1>.".
PlaceholderReadingOrder ==
  pcMask # "mask" =>
    /\ \A k \in 1..Len(masked.entities) :
         masked.entities[k].replacement = MaskToken(masked.entities[k].type, k - 1)
    /\ chunkText = SmithText =>
         masked.maskedText =
           Slice(SmithText, 0, 5) \o MaskToken("person", 0) \o Slice(SmithText, 10, 19)
             \o MaskToken("place", 1) \o <<".">>

Undefined == <<"undefined">>

\* x || ''
OrEmpty(x) == IF x = Undefined THEN <<>> ELSE x

\* rawType.includes('spell') ? 'spelling' : 'grammar'
MappedType(rawType) == IF rawType \in {"spelling", "misspelling"} THEN "spelling" ELSE "grammar"

\* mutant of SaneIndices: the upper bound of the reported span is not tested
SaneIndicesNoUpper(edit, t) ==
  /\ edit.numeric
  /\ edit.start >= 0
  /\ edit.end > edit.start

\* typeof start/end === 'number' && start >= 0 && end > start && end <= text.length
\* (numeric is FALSE for a missing index: undefined + offset is NaN, which fails
\* every comparison)
SaneIndices(edit, t) ==
  /\ edit.numeric
  /\ edit.start >= 0
  /\ edit.end > edit.start
  /\ edit.end <= Len(t)

\* mutant of LocateOriginal: every search starts at the beginning of the text
LocateOriginalFromZero(edit, t, cursor) ==
  IF edit.original # Undefined /\ Len(edit.original) > 0
  THEN IndexOf(t, edit.original, 0)
  ELSE -1

\* startIdx after the verbatim search: from the cursor, then from the beginning
LocateOriginal(edit, t, cursor) ==
  IF edit.original # Undefined /\ Len(edit.original) > 0
  THEN LET fromCursor == IndexOf(t, edit.original, cursor)
       IN IF fromCursor = -1 THEN IndexOf(t, edit.original, 0) ELSE fromCursor
  ELSE -1

\* the callback of edits.map: the TextError and the cursor it leaves
ResolveEdit(edit, t, cursor) ==
  LET located == LocateOriginal(edit, t, cursor)
      startIdx == IF located # -1 THEN located
                  ELSE IF SaneIndices(edit, t) THEN edit.start ELSE cursor
      endIdx == IF located # -1 THEN located + Len(edit.original)
                ELSE IF SaneIndices(edit, t) THEN edit.end ELSE cursor
  IN [error |-> [type |-> MappedType(edit.type),
                 word |-> edit.original,
                 start |-> startIdx,
                 end |-> endIdx,
                 suggestion |-> edit.suggestion,
                 explanation |-> OrEmpty(edit.explanation)],
      cursor |-> IF located # -1 THEN endIdx ELSE cursor]

\* ------------------------------------------------------------------------
\* deduplication, sort and no-op filter
\* ------------------------------------------------------------------------
\* `${e.start}-${e.end}-${e.type}-${e.word}-${e.suggestion}`
KeyOf(e) ==
  Digits(e.start) \o <<"-">> \o Digits(e.end) \o <<"-">> \o <<e.type>> \o <<"-">>
    \o e.word \o <<"-">> \o e.suggestion

\* mutant of Overlaps: only the first of the three tests
OverlapsStartOnly(e, existingError) ==
  e.start >= existingError.start /\ e.start < existingError.end

\* the three-way overlap test of the forEach
Overlaps(e, existingError) ==
  \/ (e.start >= existingError.start /\ e.start < existingError.end)
  \/ (e.end > existingError.start /\ e.end <= existingError.end)
  \/ (e.start <= existingError.start /\ e.end >= existingError.end)

MapHas(map, key) == \E p \in 1..Len(map) : map[p].key = key

MapGet(map, key) == map[CHOOSE p \in 1..Len(map) : map[p].key = key].value

\* Map.prototype.set: an existing key keeps its place, a new key goes last
MapSet(map, key, value) ==
  IF MapHas(map, key)
  THEN [p \in 1..Len(map) |-> IF map[p].key = key THEN [key |-> key, value |-> value] ELSE map[p]]
  ELSE Append(map, [key |-> key, value |-> value])

\* Map.prototype.delete
MapDelete(map, key) ==
  LET Other(en) == en.key # key
  IN SelectSeq(map, Other)

\* the for..of over the map's entries for a new error e; `entries` are the
\* entries not visited yet
RECURSIVE OverlapLoop(_, _, _)
OverlapLoop(map, entries, e) ==
  IF entries = <<>> THEN [map |-> map, isOverlapping |-> FALSE]
  ELSE LET existingError == Head(entries).value
       IN IF Overlaps(e, existingError)
          THEN IF e.suggestion = existingError.suggestion
               THEN [map |-> map, isOverlapping |-> TRUE]
               ELSE IF e.end - e.start > existingError.end - existingError.start
                    THEN OverlapLoop(MapDelete(map, KeyOf(existingError)), Tail(entries), e)
                    ELSE [map |-> map, isOverlapping |-> TRUE]
          ELSE OverlapLoop(map, Tail(entries), e)

\* mutant of DedupInsert: a new key is stored without the overlap loop
DedupInsertUnchecked(map, e) ==
  LET key == KeyOf(e)
  IN IF MapHas(map, key) THEN map ELSE MapSet(map, key, e)

\* one callback of errorsUnsorted.forEach
DedupInsert(map, e) ==
  LET key == KeyOf(e)
  IN IF MapHas(map, key)
     THEN IF OrEmpty(MapGet(map, key).explanation) = <<>> /\ OrEmpty(e.explanation) # <<>>
          THEN MapSet(map, key, e)
          ELSE map
     ELSE LET r == OverlapLoop(map, map, e)
          IN IF r.isOverlapping THEN r.map ELSE MapSet(r.map, key, e)

\* mutant of KeepError: only identical strings count as a no-op
KeepErrorExact(error) ==
  Trim(OrEmpty(error.word)) # Trim(OrEmpty(error.suggestion))

\* the predicate of errors.filter
KeepError(error) ==
  LET original == Trim(OrEmpty(error.word))
      suggestion == Trim(OrEmpty(error.suggestion))
  IN original # suggestion /\ ToLowerCase(original) # ToLowerCase(suggestion)

\* Array.from(uniqueMap.values()).sort(by start), then the no-op filter
SortAndFilter(map) ==
  SelectSeq(SortByStartAsc([p \in 1..Len(map) |-> map[p].value]), KeepError)

RECURSIVE DedupAll(_, _)
DedupAll(map, errs) ==
  IF errs = <<>> THEN map ELSE DedupAll(DedupInsert(map, Head(errs)), Tail(errs))

\* the whole deduplicate-sort-filter step applied to a list of errors
Merge(errs) == SortAndFilter(DedupAll(<<>>, errs))

\* ------------------------------------------------------------------------
\* The handler from the collected edits to the response, step by step
\* ------------------------------------------------------------------------
HandlerAlphabet == {"a", "b"}

\* "the cat sat on the cat mat"
CatText ==
  <<"t", "h", "e", " ", "c", "a", "t", " ", "s", "a", "t", " ", "o", "n", " ",
    "t", "h", "e", " ", "c", "a", "t", " ", "m", "a", "t">>

\* the handler answers [] at once for an empty text; the documented example text
\* is added to the short ones
HandlerTexts == (SeqsUpTo(HandlerAlphabet, MaxDocLen) \ {<<>>}) \cup {CatText}

Substrings(t, n) ==
  {s \in {SubSeq(t, a, b) : a \in 1..Len(t), b \in 1..Len(t)} : Len(s) >= 1 /\ Len(s) <= n}

\* suggestions: two different rewrites and one that equals the word "a" up to
\* case and outer blanks
Suggestions == {<<"x">>, <<"y">>, <<"A", " ">>}

\* category and explanation as the model reports them together
Reports == {[type |-> "punctuation", explanation |-> Undefined],
            [type |-> "spelling", explanation |-> <<"e">>]}

\* the index pairs the model reports for a text of length n: none, a sane one,
\* one past the end, an empty one
ReportedIndices(n) ==
  {[numeric |-> FALSE, start |-> 0, end |-> 0],
   [numeric |-> TRUE, start |-> 0, end |-> 1],
   [numeric |-> TRUE, start |-> 0, end |-> n + 1],
   [numeric |-> TRUE, start |-> 1, end |-> 1]}

MakeEdit(original, idx, suggestion, rep) ==
  [original |-> original, suggestion |-> suggestion,
   numeric |-> idx.numeric, start |-> idx.start, end |-> idx.end,
   type |-> rep.type, explanation |-> rep.explanation]

\* the corrections the model may report for t: a phrase of t (indices left out),
\* or a missing, empty or fabricated phrase with any of the index pairs
EditInputs(t) ==
  IF t = CatText
  THEN {MakeEdit(o, [numeric |-> FALSE, start |-> 0, end |-> 0], <<"x">>,
                 [type |-> "spelling", explanation |-> <<"e">>]) :
          o \in {<<"c", "a", "t">>, <<"t", "h", "e">>, <<"m", "a", "t">>}}
  ELSE
  {MakeEdit(o, [numeric |-> FALSE, start |-> 0, end |-> 0], sg, rep) :
     o \in Substrings(t, MaxOriginalLen), sg \in Suggestions, rep \in Reports}
  \cup
  {MakeEdit(o, idx, sg, rep) :
     o \in {Undefined, <<>>, <<"z">>}, idx \in ReportedIndices(Len(t)),
     sg \in Suggestions, rep \in Reports}

InitHandler ==
  /\ truncatedText \in HandlerTexts
  /\ edits \in SeqsUpTo(EditInputs(truncatedText), MaxEdits)
  /\ searchCursor = 0
  /\ errorsUnsorted = <<>>
  /\ cursorLog = <<>>
  /\ uniqueMap = <<>>
  /\ deduped = 0
  /\ filteredErrors = <<>>
  /\ pcHandler = IF edits = <<>> THEN "dedup" ELSE "resolve"
  /\ IdleChunks
  /\ IdleMask
  /\ IdleEditor
  /\ IdlePost

\* one callback of edits.map
Resolve ==
  /\ pcHandler = "resolve"
  /\ LET r == ResolveEdit(edits[Len(errorsUnsorted) + 1], truncatedText, searchCursor)
     IN /\ errorsUnsorted' = Append(errorsUnsorted, r.error)
        /\ searchCursor' = r.cursor
  /\ cursorLog' = Append(cursorLog, searchCursor)
  /\ pcHandler' = IF Len(errorsUnsorted') = Len(edits) THEN "dedup" ELSE "resolve"
  /\ UNCHANGED <<truncatedText, edits, uniqueMap, deduped, filteredErrors>>
  /\ UNCHANGED <<chunkVars, maskVars, editorVars, postVars>>

\* one callback of errorsUnsorted.forEach
Dedup ==
  /\ pcHandler = "dedup"
  /\ deduped < Len(errorsUnsorted)
  /\ uniqueMap' = DedupInsert(uniqueMap, errorsUnsorted[deduped + 1])
  /\ deduped' = deduped + 1
  /\ UNCHANGED <<truncatedText, edits, searchCursor, errorsUnsorted, cursorLog,
                 filteredErrors, pcHandler>>
  /\ UNCHANGED <<chunkVars, maskVars, editorVars, postVars>>

\* sort, filter and return NextResponse.json(filteredErrors)
Respond ==
  /\ pcHandler = "dedup"
  /\ deduped = Len(errorsUnsorted)
  /\ filteredErrors' = SortAndFilter(uniqueMap)
  /\ pcHandler' = "done"
  /\ UNCHANGED <<truncatedText, edits, searchCursor, errorsUnsorted, cursorLog,
                 uniqueMap, deduped>>
  /\ UNCHANGED <<chunkVars, maskVars, editorVars, postVars>>

NextHandler ==
  \/ Resolve
  \/ Dedup
  \/ Respond

SpecHandler == InitHandler /\ [][NextHandler]_vars

\* ------------------------------------------------------------------------
\* The deduplicate-sort-filter step on arbitrary error lists
\* ------------------------------------------------------------------------
\* errors over the positions 0..MaxPos, zero-length spans included; the word is
\* "a", so the suggestion "A " is a no-op
MergeInputs ==
  {[type |-> "grammar", word |-> <<"a">>, start |-> sp[1], end |-> sp[2],
    suggestion |-> v[1], explanation |-> v[2]] :
     sp \in {x \in (0..MaxPos) \X (0..MaxPos) : x[1] <= x[2]},
     v \in {<<<<"x">>, <<>>>>, <<<<"x">>, <<"e">>>>, <<<<"y">>, <<>>>>, <<<<"A", " ">>, <<>>>>}}

InitMerge ==
  /\ truncatedText = <<>>
  /\ edits = <<>>
  /\ searchCursor = 0
  /\ errorsUnsorted \in SeqsUpTo(MergeInputs, MaxErrors)
  /\ cursorLog = <<>>
  /\ uniqueMap = <<>>
  /\ deduped = 0
  /\ filteredErrors = <<>>
  /\ pcHandler = "dedup"
  /\ IdleChunks
  /\ IdleMask
  /\ IdleEditor
  /\ IdlePost

NextMerge ==
  \/ Dedup
  \/ Respond

SpecMerge == InitMerge /\ [][NextMerge]_vars

\* ------------------------------------------------------------------------
\* Properties of the handler
\* ------------------------------------------------------------------------
\* the phrase of the edit occurs somewhere in the text
OccursInText(edit) ==
  /\ edit.original # Undefined
  /\ Len(edit.original) > 0
  /\ \E p \in 0..Len(truncatedText) : MatchAt(truncatedText, edit.original, p)

\* the reported indices are numbers that delimit a non-empty span of the text
ReportedSpanSane(edit) ==
  /\ edit.numeric
  /\ 0 <= edit.start
  /\ edit.start < edit.end
  /\ edit.end <= Len(truncatedText)

\* C2: every resolved TextError, and so every TextError of the response, has
\* 0 <= start <= end <= text.length, and end > start unless its correction could be
\* located neither verbatim nor by sane reported indices, and then start = end =
\* the cursor.
OffsetsValid ==
  /\ \A p \in 1..Len(errorsUnsorted) :
       LET e == errorsUnsorted[p]
       IN /\ 0 <= e.start
          /\ e.start <= e.end
          /\ e.end <= Len(truncatedText)
          /\ \/ e.end > e.start
             \/ /\ ~OccursInText(edits[p])
                /\ ~ReportedSpanSane(edits[p])
                /\ e.start = cursorLog[p]
                /\ e.end = cursorLog[p]
  /\ \A q \in 1..Len(filteredErrors) :
       \E p \in 1..Len(errorsUnsorted) : filteredErrors[q] = errorsUnsorted[p]

\* the response carries a zero-length error whose correction reported an end index
\* past the end of the text, and an error placed by sane reported indices
OffsetsValidWitness ==
  /\ pcHandler = "done"
  /\ \E q \in 1..Len(filteredErrors) : \E p \in 1..Len(edits) :
       /\ filteredErrors[q] = errorsUnsorted[p]
       /\ filteredErrors[q].start = filteredErrors[q].end
       /\ edits[p].numeric
       /\ edits[p].end > Len(truncatedText)
  /\ \E p \in 1..Len(edits) :
       /\ ~OccursInText(edits[p])
       /\ ReportedSpanSane(edits[p])
       /\ errorsUnsorted[p].end > errorsUnsorted[p].start

\* the n-th (0-based) of the successive non-overlapping occurrences of w in t at or
\* after position from, or -1
RECURSIVE NthOccurrence(_, _, _, _)
NthOccurrence(t, w, from, n) ==
  LET c == {p \in from..(Len(t) - Len(w)) : MatchAt(t, w, p)}
  IN IF c = {} THEN -1
     ELSE IF n = 0 THEN Min(c)
     ELSE NthOccurrence(t, w, Min(c) + Len(w), n - 1)

\* C3: when k consecutive corrections carry the same non-empty original_text and
\* the text has at least k non-overlapping occurrences of it at or after the cursor
\* the first of them starts from, the i-th of them resolves to the i-th occurrence.
DuplicateResolution ==
  \A j \in 1..Len(errorsUnsorted) : \A k \in 1..(Len(errorsUnsorted) - j + 1) :
    LET w == edits[j].original
    IN (/\ w # Undefined
        /\ Len(w) > 0
        /\ \A n \in 0..(k - 1) : edits[j + n].original = w
        /\ NthOccurrence(truncatedText, w, cursorLog[j], k - 1) # -1)
       => \A n \in 0..(k - 1) :
            /\ errorsUnsorted[j + n].start = NthOccurrence(truncatedText, w, cursorLog[j], n)
            /\ errorsUnsorted[j + n].end = errorsUnsorted[j + n].start + Len(w)
            /\ \A m \in 0..(n - 1) : errorsUnsorted[j + m].end <= errorsUnsorted[j + n].start

\* the documented example: two "cat" corrections resolve to [4,7) and [19,22)
DuplicateResolutionWitness ==
  /\ truncatedText = CatText
  /\ Len(errorsUnsorted) = 2
  /\ edits[1].original = <<"c", "a", "t">>
  /\ edits[2].original = <<"c", "a", "t">>
  /\ errorsUnsorted[1].start = 4
  /\ errorsUnsorted[1].end = 7
  /\ errorsUnsorted[2].start = 19
  /\ errorsUnsorted[2].end = 22

\* C6: merging the merged list again changes nothing.
MergeIdempotent ==
  pcHandler = "done" => Merge(filteredErrors) = filteredErrors

\* a merge that dropped an input and left at least two errors, one of them of
\* zero length
MergeIdempotentWitness ==
  /\ pcHandler = "done"
  /\ Len(filteredErrors) >= 2
  /\ Len(filteredErrors) < Len(errorsUnsorted)
  /\ \E q \in 1..Len(filteredErrors) : filteredErrors[q].start = filteredErrors[q].end

\* the overlap of two spans as the merge rule states it
SpansOverlap(a, b) == a.start < b.end /\ b.start < a.end

\* the five fields the map key is built from
SameKey(a, b) ==
  /\ a.start = b.start
  /\ a.end = b.end
  /\ a.type = b.type
  /\ a.word = b.word
  /\ a.suggestion = b.suggestion

\* the response holds an error with the key of e
InOutput(e) == \E q \in 1..Len(filteredErrors) : SameKey(filteredErrors[q], e)

SpanLength(e) == e.end - e.start

\* C23: of two input errors with overlapping spans and different suggestions the
\* shorter is not in the response, whatever the input order, and the strictly
\* longer one is in it when no third input error overlaps it and it is not a
\* no-op.
ConflictKeepsLonger ==
  pcHandler = "done" =>
    \A p, q \in 1..Len(errorsUnsorted) :
      LET a == errorsUnsorted[p]
          b == errorsUnsorted[q]
      IN (/\ SpansOverlap(a, b)
          /\ a.suggestion # b.suggestion
          /\ SpanLength(a) > SpanLength(b))
         => /\ ~InOutput(b)
            /\ (/\ KeepError(a)
                /\ \A r \in 1..Len(errorsUnsorted) :
                     r \notin {p, q} => ~SpansOverlap(errorsUnsorted[r], a))
               => InOutput(a)

\* C24: the overlap test of the merge loop agrees with
\* a.start < b.end && b.start < a.end on every pair of spans it is applied to,
\* zero-length and touching spans included.
OverlapTestEquivalent ==
  \A p, q \in 1..deduped :
    p # q => (Overlaps(errorsUnsorted[p], errorsUnsorted[q])
                <=> SpansOverlap(errorsUnsorted[p], errorsUnsorted[q]))

\* C26: no two errors of the response have overlapping spans and no two have the
\* same (start, end, type, word, suggestion).
OutputNonContradictory ==
  pcHandler = "done" =>
    \A p, q \in 1..Len(filteredErrors) :
      p # q => /\ ~SpansOverlap(filteredErrors[p], filteredErrors[q])
               /\ ~SameKey(filteredErrors[p], filteredErrors[q])

\* three inputs, two of them overlapping with different suggestions and one
\* given twice with the same key; two errors that touch remain
OutputNonContradictoryWitness ==
  /\ pcHandler = "done"
  /\ Len(errorsUnsorted) = 3
  /\ SpansOverlap(errorsUnsorted[1], errorsUnsorted[2])
  /\ errorsUnsorted[1].suggestion # errorsUnsorted[2].suggestion
  /\ Len(filteredErrors) = 2
  /\ filteredErrors[1].end = filteredErrors[2].start
  /\ filteredErrors[1].start < filteredErrors[1].end

\* C27: an input error that is not a no-op is missing from the response only if
\* the response holds an error with its key or one whose span overlaps it.
NoCoverageLost ==
  pcHandler = "done" =>
    \A p \in 1..Len(errorsUnsorted) :
      (KeepError(errorsUnsorted[p]) /\ ~InOutput(errorsUnsorted[p]))
        => \E q \in 1..Len(filteredErrors) :
             SpansOverlap(filteredErrors[q], errorsUnsorted[p])

\* C7: no error of the response has a suggestion equal to its word up to case and
\* outer blanks.
NoNoopInOutput ==
  \A q \in 1..Len(filteredErrors) :
    ToLowerCase(Trim(OrEmpty(filteredErrors[q].suggestion)))
      # ToLowerCase(Trim(OrEmpty(filteredErrors[q].word)))

\* the map held the no-op "a" -> "A " when the response was built, and the response
\* is not empty
NoNoopWitness ==
  /\ pcHandler = "done"
  /\ Len(filteredErrors) >= 1
  /\ \E p \in 1..Len(uniqueMap) :
       /\ uniqueMap[p].value.word = <<"a">>
       /\ uniqueMap[p].value.suggestion = <<"A", " ">>

\* C8: a correction whose (non-empty) original_text occurs nowhere in the text, whose
\* reported indices are not sane and whose suggestion is not a no-op, is in the response as a zero-length
\* TextError at the cursor value of the moment it was resolved.
UnresolvableKept ==
  pcHandler = "done" =>
    \A p \in 1..Len(edits) :
      (/\ edits[p].original # Undefined
       /\ Len(edits[p].original) > 0
       /\ ~OccursInText(edits[p])
       /\ ~ReportedSpanSane(edits[p])
       /\ ToLowerCase(Trim(OrEmpty(edits[p].suggestion)))
            # ToLowerCase(Trim(OrEmpty(edits[p].original))))
      => \E q \in 1..Len(filteredErrors) :
           /\ filteredErrors[q].start = cursorLog[p]
           /\ filteredErrors[q].end = cursorLog[p]
           /\ filteredErrors[q].word = edits[p].original
           /\ filteredErrors[q].suggestion = edits[p].suggestion

\* C20: while the corrections of one request are resolved in order, searchCursor
\* never decreases.
CursorMonotone ==
  /\ \A p, q \in 1..Len(cursorLog) : p < q => cursorLog[p] <= cursorLog[q]
  /\ \A p \in 1..Len(cursorLog) : cursorLog[p] <= searchCursor

\* ------------------------------------------------------------------------
\* app/api/research/route.ts, POST of the grammar check: the whole request
\* ------------------------------------------------------------------------
PostTexts == SeqsUpTo(Alphabet, MaxPostTextLen)

\* the values MAX_CHUNK_CHARS is configured to (GPT_CHECK_CHUNK_SIZE)
ChunkSizes == 2..MaxChunkChars

\* the corrections runGptCheck may return for the submitted text t: a phrase of
\* t with no indices, or a fabricated phrase with indices
PostEditInputs(t) ==
  {MakeEdit(o, [numeric |-> FALSE, start |-> 0, end |-> 0], <<"x">>,
            [type |-> "spelling", explanation |-> <<"e">>]) :
     o \in TrimmedSubstrings(t, MaxOriginalLen)}
  \cup
  {MakeEdit(<<"z">>, [numeric |-> TRUE, start |-> 0, end |-> 1], <<"y">>,
            [type |-> "punctuation", explanation |-> Undefined])}

GptResults(t) == SeqsUpTo(PostEditInputs(t), MaxChunkEdits)

\* the text handed to runGptCheck for a chunk: chunk.maskedText, or its first
\* MAX_CHUNK_CHARS characters when it is longer
SubmittedText(chunk) ==
  IF Len(chunk.maskedText) > maxChunkChars
  THEN Slice(chunk.maskedText, 0, maxChunkChars)
  ELSE chunk.maskedText

\* the originalText argument of adjustErrorPositions in the two branches
OriginalForAdjust(chunk) ==
  IF Len(chunk.maskedText) > maxChunkChars
  THEN Slice(chunk.originalText, 0, Min({maxChunkChars, Len(chunk.originalText)}))
  ELSE chunk.originalText

\* adjustErrorPositions(...).map(edit => ({...edit, start: edit.start + chunk.startOffset,
\* end: edit.end + chunk.startOffset})); absent indices stay unusable
AdjustedEdits(chunkEdits, chunk) ==
  LET adj == adjustErrorPositions(chunkEdits, SubmittedText(chunk), OriginalForAdjust(chunk),
                                  chunk.entities)
  IN [p \in 1..Len(chunkEdits) |->
        IF chunkEdits[p].numeric
        THEN [adj[p] EXCEPT !.start = @ + chunk.startOffset, !.end = @ + chunk.startOffset]
        ELSE chunkEdits[p]]

\* after the catch block of a chunk the for loop goes on with the next chunk
NextChunkAfterFailureAbort(idx, total) == total

NextChunkAfterFailure(idx, total) == idx + 1

InitPost ==
  /\ text \in PostTexts
  /\ nodes \in Segmentations(text)
  /\ sentencesPerChunk \in 1..MaxSentencesPerChunk
  /\ sentences = <<>>
  /\ i = 0
  /\ searchStart = 0
  /\ chunks = <<>>
  /\ processedChunks = <<>>
  /\ pcChunks = "idle"
  /\ maxChunkChars \in ChunkSizes
  /\ chunkIdx = 0
  /\ gptCalls = <<>>
  /\ editOrigin = <<>>
  /\ pcPost = "start"
  /\ IdleMask
  /\ IdleHandler
  /\ IdleEditor

\* if (!text) return NextResponse.json([]); const truncatedText = text;
\* then the call of prepareTextForGrammarCheck(truncatedText, SENTENCES_PER_CHUNK)
PostStart ==
  /\ pcPost = "start"
  /\ IF text = <<>>
     THEN /\ pcPost' = "returned"
          /\ UNCHANGED <<truncatedText, pcChunks>>
     ELSE /\ truncatedText' = text
          /\ pcChunks' = "split"
          /\ pcPost' = "prepare"
  /\ UNCHANGED <<text, nodes, sentencesPerChunk, sentences, i, searchStart, chunks,
                 processedChunks>>
  /\ UNCHANGED <<edits, searchCursor, errorsUnsorted, cursorLog, uniqueMap, deduped,
                 filteredErrors, pcHandler>>
  /\ UNCHANGED <<maxChunkChars, chunkIdx, gptCalls, editOrigin>>
  /\ UNCHANGED <<maskVars, editorVars>>

\* an exception of prepareTextForGrammarCheck reaches the outer catch:
\* NextResponse.json({ error: 'Server error' }, { status: 500 })
PostCatch ==
  /\ pcPost = "prepare"
  /\ pcChunks \in {"splitThrew", "nlpThrew"}
  /\ pcPost' = "caught"
  /\ UNCHANGED <<maxChunkChars, chunkIdx, gptCalls, editOrigin>>
  /\ UNCHANGED <<chunkVars, maskVars, handlerVars, editorVars>>

\* one iteration of for (const chunk of chunks): runGptCheck returns or throws
PostChunk ==
  /\ pcPost = "prepare"
  /\ pcChunks = "done"
  /\ chunkIdx < Len(processedChunks)
  /\ LET chunk == processedChunks[chunkIdx + 1]
         submitted == SubmittedText(chunk)
     IN \/ \E chunkEdits \in GptResults(submitted) :
             /\ edits' = edits \o AdjustedEdits(chunkEdits, chunk)
             /\ editOrigin' = editOrigin \o [p \in 1..Len(chunkEdits) |-> chunkIdx + 1]
             /\ gptCalls' = Append(gptCalls, [chunk |-> chunkIdx + 1, from |-> 0,
                                              text |-> submitted, threw |-> FALSE,
                                              returned |-> chunkEdits])
             /\ chunkIdx' = chunkIdx + 1
        \/ /\ gptCalls' = Append(gptCalls, [chunk |-> chunkIdx + 1, from |-> 0,
                                            text |-> submitted, threw |-> TRUE,
                                            returned |-> <<>>])
           /\ chunkIdx' = NextChunkAfterFailure(chunkIdx, Len(processedChunks))
           /\ UNCHANGED <<edits, editOrigin>>
  /\ UNCHANGED <<truncatedText, searchCursor, errorsUnsorted, cursorLog, uniqueMap, deduped,
                 filteredErrors, pcHandler>>
  /\ UNCHANGED <<maxChunkChars, pcPost>>
  /\ UNCHANGED <<chunkVars, maskVars, editorVars>>

\* the for loop is over: let searchCursor = 0; edits.map(...) begins
PostLoopEnd ==
  /\ pcPost = "prepare"
  /\ pcChunks = "done"
  /\ chunkIdx >= Len(processedChunks)
  /\ pcPost' = "resolve"
  /\ pcHandler' = IF edits = <<>> THEN "dedup" ELSE "resolve"
  /\ UNCHANGED <<truncatedText, edits, searchCursor, errorsUnsorted, cursorLog, uniqueMap,
                 deduped, filteredErrors>>
  /\ UNCHANGED <<maxChunkChars, chunkIdx, gptCalls, editOrigin>>
  /\ UNCHANGED <<chunkVars, maskVars, editorVars>>

NextPost ==
  \/ PostStart
  \/ SplitIntoSentences
  \/ SplitThrows
  \/ CreateTextChunksLoop
  \/ CreateTextChunksReturn
  \/ PrepareChunk
  \/ NlpThrows
  \/ PrepareReturn
  \/ PostCatch
  \/ PostChunk
  \/ PostLoopEnd
  \/ Resolve
  \/ Dedup
  \/ Respond

SpecPost == InitPost /\ [][NextPost]_vars

\* the handler has answered: [] for no text, the 500 of the outer catch, or
\* filteredErrors
Responded == pcPost \in {"returned", "caught"} \/ (pcPost = "resolve" /\ pcHandler = "done")

ResponseStatus == IF pcPost = "caught" THEN 500 ELSE 200

ResponseBody == IF pcPost = "resolve" THEN filteredErrors ELSE <<>>

\* the elements of edits that came from chunk k, in order
EditsOf(k) ==
  LET ps == {p \in 1..Len(edits) : editOrigin[p] = k}
  IN IF ps = {} THEN <<>> ELSE [j \in 1..Cardinality(ps) |-> edits[Min(ps) + j - 1]]

\* C11: a runGptCheck call that throws leaves its chunk with zero corrections;
\* every chunk is submitted, in order, whatever failed before it; the corrections
\* of the other chunks are collected and the handler does not answer with an error.
PerChunkFailureIsolation ==
  pcChunks = "done" =>
    /\ Len(gptCalls) = chunkIdx
    /\ \A k \in 1..Len(gptCalls) :
         /\ gptCalls[k].chunk = k
         /\ gptCalls[k].threw => EditsOf(k) = <<>>
         /\ ~gptCalls[k].threw => EditsOf(k) = AdjustedEdits(gptCalls[k].returned, processedChunks[k])
    /\ pcPost = "resolve" => Len(gptCalls) = Len(processedChunks)
    /\ pcPost # "caught"
    /\ Responded => (ResponseStatus = 200 /\ ResponseBody = Merge(errorsUnsorted))

\* the call for the first chunk threw, the second chunk's correction is in the response
PerChunkFailureWitness ==
  /\ Responded
  /\ Len(gptCalls) >= 2
  /\ gptCalls[1].threw
  /\ ~gptCalls[2].threw
  /\ Len(gptCalls[2].returned) >= 1
  /\ \E q \in 1..Len(ResponseBody) : ResponseBody[q].word = gptCalls[2].returned[1].original

\* C12: a chunk longer than MAX_CHUNK_CHARS is cut into consecutive slices of at
\* most that many characters, and every non-blank slice is submitted: each
\* submitted text is within the limit and each non-blank character of the chunk
\* lies in a submitted slice.
OversizedChunkCovered ==
  pcChunks = "done" =>
    \A k \in 1..Len(gptCalls) :
      LET maskedText == processedChunks[gptCalls[k].chunk].maskedText
      IN /\ Len(gptCalls[k].text) <= maxChunkChars
         /\ \A p \in 0..(Len(maskedText) - 1) :
              ~IsSpace(maskedText[p + 1]) =>
                \E c \in 1..Len(gptCalls) :
                  /\ gptCalls[c].chunk = gptCalls[k].chunk
                  /\ gptCalls[c].from <= p
                  /\ p < gptCalls[c].from + Len(gptCalls[c].text)

\* C16: when the recognizer throws for a chunk, masking goes on with an empty
\* entity table, the chunk is still sent for correction and the exception does
\* not leave the pipeline: the handler never answers 500 because of it.
NerFailureRecovered ==
  /\ pcChunks = "nlpThrew" => ~Responded
  /\ Responded => ResponseStatus = 200 \/ pcChunks = "splitThrew"

CursorScopedToChunk ==
  \A p \in 1..Len(errorsUnsorted) :
    (pcPost = "resolve" /\ OccursInText(edits[p])) =>
      LET c == processedChunks[editOrigin[p]]
      IN /\ c.startOffset <= errorsUnsorted[p].start
         /\ errorsUnsorted[p].start < errorsUnsorted[p].end
         /\ errorsUnsorted[p].end <= c.endOffset

\* ------------------------------------------------------------------------
\* The editor component: scheduling of deep check passes
\* ------------------------------------------------------------------------
Tones == {"casual", "professional", "persuasive"}

\* prev.filter(e => e.type === 'style')
StyleOnly(prev) == {e \in prev : e.type = "style"}

\* prev.filter(e => e.type !== 'style')
NonStyle(prev) == {e \in prev : e.type # "style"}

\* ++latestCheckIdRef.current
NextCheckId(latest) == latest + 1

\* latestCheckIdRef.current === myCheckId, the guard of .then and of .finally
IsCurrentAlways(latest, myCheckId) == TRUE

\* mutant of IsCurrent: no pass ever counts as the latest
IsCurrentNever(latest, myCheckId) == FALSE

IsCurrent(latest, myCheckId) == latest = myCheckId

\* The bound on the number of passes: a call that would start a pass is
\* taken only while fewer than MaxPasses have been started.
MayCheck == textLong => latestCheckIdRef < MaxPasses

\* checkTextForErrors(text, doc, true), called with the list `prev` as the
\* pending value of errors; the request it starts is left in flight.
CheckTextForErrors(prev) ==
  IF ~textLong
  THEN /\ errors' = StyleOnly(prev)
       /\ UNCHANGED <<latestCheckIdRef, isChecking, passes>>
  ELSE LET myCheckId == NextCheckId(latestCheckIdRef)
       IN /\ latestCheckIdRef' = myCheckId
          /\ isChecking' = TRUE
          /\ passes' = Append(passes, [id |-> myCheckId, startEdit |-> editCount,
                                      status |-> "pending"])
          /\ errors' = prev

InitEditor ==
  /\ latestCheckIdRef = 0
  /\ isChecking = FALSE
  /\ errors = {}
  /\ isTyping = FALSE
  /\ typingTimeoutRef = FALSE
  /\ checkTimeoutRef = FALSE
  /\ recheckTimers = 0
  /\ selectedTone = "null"
  /\ effectPending = TRUE
  /\ textLong \in BOOLEAN
  /\ editCount = 0
  /\ passes = <<>>
  /\ settleLog = <<>>
  /\ toneRequests = 0
  /\ spellRequests = 0
  /\ IdleChunks
  /\ IdleMask
  /\ IdleHandler
  /\ IdlePost

\* onUpdate for a user edit (skipNextUpdateRef is false): the text changes,
\* a trailing space starts a spell check, both timers are re-armed.
\* latestCheckIdRef is not touched.
OnUpdate ==
  /\ editCount < MaxUserEdits
  /\ \E long \in BOOLEAN, space \in BOOLEAN :
       /\ space => spellRequests < MaxSpellRequests
       /\ textLong' = long
       /\ spellRequests' = IF space THEN spellRequests + 1 ELSE spellRequests
  /\ editCount' = editCount + 1
  /\ isTyping' = TRUE
  /\ typingTimeoutRef' = TRUE
  /\ checkTimeoutRef' = TRUE
  /\ UNCHANGED <<latestCheckIdRef, isChecking, errors, recheckTimers, selectedTone,
                 effectPending, passes, settleLog, toneRequests>>
  /\ UNCHANGED <<chunkVars, maskVars, handlerVars, postVars>>

\* the async block of onUpdate resumes after gptSpellCheck: results are
\* merged into the list with no generation test
SpellSettle ==
  /\ spellRequests > 0
  /\ spellRequests' = spellRequests - 1
  /\ \E found \in BOOLEAN :
       errors' = IF found THEN errors \cup {[type |-> "spelling", src |-> 0]} ELSE errors
  /\ UNCHANGED <<latestCheckIdRef, isChecking, isTyping, typingTimeoutRef, checkTimeoutRef,
                 recheckTimers, selectedTone, effectPending, textLong, editCount, passes,
                 settleLog, toneRequests>>
  /\ UNCHANGED <<chunkVars, maskVars, handlerVars, postVars>>

\* the 500 ms timer of onUpdate
TypingTimeout ==
  /\ typingTimeoutRef
  /\ typingTimeoutRef' = FALSE
  /\ isTyping' = FALSE
  /\ UNCHANGED <<latestCheckIdRef, isChecking, errors, checkTimeoutRef, recheckTimers,
                 selectedTone, effectPending, textLong, editCount, passes, settleLog,
                 toneRequests, spellRequests>>
  /\ UNCHANGED <<chunkVars, maskVars, handlerVars, postVars>>

\* the 1000 ms debounce timer of onUpdate
CheckTimeout ==
  /\ checkTimeoutRef
  /\ MayCheck
  /\ checkTimeoutRef' = FALSE
  /\ CheckTextForErrors(errors)
  /\ UNCHANGED <<isTyping, typingTimeoutRef, recheckTimers, selectedTone, effectPending,
                 textLong, editCount, settleLog, toneRequests, spellRequests>>
  /\ UNCHANGED <<chunkVars, maskVars, handlerVars, postVars>>

\* gptCheck(text) settles for the pass at position p: .then and .finally.
\* gptCheck never rejects; a failed request resolves to the empty list.
GptCheckSettle ==
  \E p \in 1..Len(passes), found \in BOOLEAN :
    /\ passes[p].status = "pending"
    /\ LET myCheckId == passes[p].id
           current == IsCurrent(latestCheckIdRef, myCheckId)
           filtered == IF found THEN {[type |-> "grammar", src |-> myCheckId]} ELSE {}
       IN /\ errors' = IF current THEN StyleOnly(errors) \cup filtered ELSE errors
          /\ isChecking' = IF current THEN FALSE ELSE isChecking
          /\ passes' = [passes EXCEPT ![p].status = IF current THEN "applied" ELSE "stale"]
          /\ settleLog' = Append(settleLog, [id |-> myCheckId, latest |-> latestCheckIdRef,
                                             applied |-> current, edit |-> editCount,
                                             startEdit |-> passes[p].startEdit])
    /\ UNCHANGED <<latestCheckIdRef, isTyping, typingTimeoutRef, checkTimeoutRef,
                   recheckTimers, selectedTone, effectPending, textLong, editCount,
                   toneRequests, spellRequests>>
    /\ UNCHANGED <<chunkVars, maskVars, handlerVars, postVars>>

\* setSelectedTone from the toolbar; the effect on selectedTone is scheduled
SetSelectedTone ==
  /\ ~effectPending
  /\ \E tone \in Tones \cup {"null"} :
       /\ tone # selectedTone
       /\ selectedTone' = tone
  /\ effectPending' = TRUE
  /\ UNCHANGED <<latestCheckIdRef, isChecking, errors, isTyping, typingTimeoutRef,
                 checkTimeoutRef, recheckTimers, textLong, editCount, passes, settleLog,
                 toneRequests, spellRequests>>
  /\ UNCHANGED <<chunkVars, maskVars, handlerVars, postVars>>

\* the effect on [selectedTone, editor, ...]: it also runs once after mount
ToneEffect ==
  /\ effectPending
  /\ effectPending' = FALSE
  /\ IF selectedTone # "null"
     THEN \* initializeStyleSuggestions up to its await
          /\ toneRequests < MaxToneRequests
          /\ isChecking' = TRUE
          /\ toneRequests' = toneRequests + 1
          /\ UNCHANGED <<latestCheckIdRef, errors, passes>>
     ELSE /\ MayCheck
          /\ CheckTextForErrors(NonStyle(errors))
          /\ UNCHANGED toneRequests
  /\ UNCHANGED <<isTyping, typingTimeoutRef, checkTimeoutRef, recheckTimers, selectedTone,
                 textLong, editCount, settleLog, spellRequests>>
  /\ UNCHANGED <<chunkVars, maskVars, handlerVars, postVars>>

\* initializeStyleSuggestions resumes after gptToneSuggest: try body and finally
ToneSettle ==
  /\ toneRequests > 0
  /\ toneRequests' = toneRequests - 1
  /\ \E found \in BOOLEAN :
       errors' = NonStyle(errors) \cup
                 (IF found THEN {[type |-> "style", src |-> 0]} ELSE {})
  /\ isChecking' = FALSE
  /\ UNCHANGED <<latestCheckIdRef, isTyping, typingTimeoutRef, checkTimeoutRef,
                 recheckTimers, selectedTone, effectPending, textLong, editCount, passes,
                 settleLog, spellRequests>>
  /\ UNCHANGED <<chunkVars, maskVars, handlerVars, postVars>>

\* the Accept button: skipNextUpdateRef is set, the replacement runs and the
\* onUpdate it triggers resets the flag and returns at once, so neither timer
\* is armed and editCount stays; then the follow-up of the click handler.
Accept ==
  \E error \in errors, long \in BOOLEAN, poolNext \in BOOLEAN :
    /\ textLong' = long
    /\ IF error.type = "style"
       THEN IF poolNext
            THEN UNCHANGED <<errors, isChecking, toneRequests, recheckTimers>>
            ELSE IF selectedTone # "null"
                 THEN /\ toneRequests < MaxToneRequests
                      /\ isChecking' = TRUE
                      /\ toneRequests' = toneRequests + 1
                      /\ errors' = errors \ {error}
                      /\ UNCHANGED recheckTimers
                 ELSE /\ errors' = errors \ {error}
                      /\ UNCHANGED <<isChecking, toneRequests, recheckTimers>>
       ELSE /\ recheckTimers < MaxRecheckTimers
            /\ errors' = errors \ {error}
            /\ recheckTimers' = recheckTimers + 1
            /\ UNCHANGED <<isChecking, toneRequests>>
    /\ UNCHANGED <<latestCheckIdRef, isTyping, typingTimeoutRef, checkTimeoutRef,
                   selectedTone, effectPending, editCount, passes, settleLog,
                   spellRequests>>
    /\ UNCHANGED <<chunkVars, maskVars, handlerVars, postVars>>

\* the Decline button
Decline ==
  \E error \in errors, poolNext \in BOOLEAN :
    /\ IF error.type = "style"
       THEN /\ errors' = IF poolNext THEN errors ELSE errors \ {error}
            /\ UNCHANGED recheckTimers
       ELSE /\ recheckTimers < MaxRecheckTimers
            /\ errors' = errors \ {error}
            /\ recheckTimers' = recheckTimers + 1
    /\ UNCHANGED <<latestCheckIdRef, isChecking, isTyping, typingTimeoutRef,
                   checkTimeoutRef, selectedTone, effectPending, textLong, editCount,
                   passes, settleLog, toneRequests, spellRequests>>
    /\ UNCHANGED <<chunkVars, maskVars, handlerVars, postVars>>

\* the 100 ms timer armed by Accept / Decline
RecheckTimeout ==
  /\ recheckTimers > 0
  /\ MayCheck
  /\ recheckTimers' = recheckTimers - 1
  /\ CheckTextForErrors(errors)
  /\ UNCHANGED <<isTyping, typingTimeoutRef, checkTimeoutRef, selectedTone, effectPending,
                 textLong, editCount, settleLog, toneRequests, spellRequests>>
  /\ UNCHANGED <<chunkVars, maskVars, handlerVars, postVars>>

NextEditor ==
  \/ OnUpdate
  \/ SpellSettle
  \/ TypingTimeout
  \/ CheckTimeout
  \/ GptCheckSettle
  \/ SetSelectedTone
  \/ ToneEffect
  \/ ToneSettle
  \/ Accept
  \/ Decline
  \/ RecheckTimeout

SpecEditor == InitEditor /\ [][NextEditor]_vars

\* ------------------------------------------------------------------------
\* Properties of the editor's check scheduling
\* ------------------------------------------------------------------------

\* C9: once onUpdate has fired for a user edit, no check pass that was started
\* before that edit applies its results to the displayed error list: every
\* pass that applied its results settled with no user edit since its start.
EditInvalidatesInFlight ==
  \A k \in 1..Len(settleLog) :
    settleLog[k].applied => settleLog[k].edit = settleLog[k].startEdit

\* C10: each deep pass takes a strictly larger id than every earlier pass; a
\* pass applies its results exactly when its id is the latest id issued at the
\* moment its request settles; once generation g has been applied no smaller
\* generation is applied afterwards.
LastWriterWins ==
  /\ \A p, q \in 1..Len(passes) : p < q => passes[p].id < passes[q].id
  /\ latestCheckIdRef = Len(passes)
  /\ \A k \in 1..Len(settleLog) :
       settleLog[k].applied <=> settleLog[k].id = settleLog[k].latest
  /\ \A j, k \in 1..Len(settleLog) :
       (j < k /\ settleLog[j].applied /\ settleLog[k].applied)
         => settleLog[j].id < settleLog[k].id
  /\ \A e \in errors : e.type = "grammar" =>
       \E k \in 1..Len(settleLog) : settleLog[k].applied /\ settleLog[k].id = e.src

\* responses arrive in reverse order: generation 2 is applied, then the
\* response of generation 1 arrives and is discarded
LastWriterWinsWitness ==
  \E j, k \in 1..Len(settleLog) :
    /\ j < k
    /\ settleLog[j].applied
    /\ ~settleLog[k].applied
    /\ settleLog[k].id < settleLog[j].id
    /\ [type |-> "grammar", src |-> settleLog[j].id] \in errors

\* every deep pass and every tone request that was started has settled
AllSettled ==
  /\ toneRequests = 0
  /\ \A p \in 1..Len(passes) : passes[p].status # "pending"

\* C30: once every started deep pass and tone request has settled, isChecking
\* is false, although a superseded pass does not clear it.
IndicatorNotStuck == AllSettled => ~isChecking

\* all settled after a tone request delivered a style suggestion, and the
\* request that settled last was a superseded pass, which left isChecking alone
IndicatorNotStuckWitness ==
  /\ AllSettled
  /\ \E e \in errors : e.type = "style"
  /\ Len(settleLog) >= 2
  /\ ~settleLog[Len(settleLog)].applied
  /\ \E p \in 1..Len(passes) : passes[p].status = "applied"

====
